---- MODULE Spec2Model ----
(***************************************************************************)
(* Model of the agent tools of tools.py: each tool is a coroutine run on   *)
(* the single event-loop thread; blocking library calls are either handed  *)
(* to the default thread-pool executor (read_news, play_video,             *)
(* send_whatsapp) or made in place on the loop thread (the SMTP session of *)
(* send_email, the webbrowser fallback of play_video).                     *)
(*                                                                         *)
(* Texts are sequences of strings: the literal pieces of the f-string and  *)
(* the interpolated values, in order.                                      *)
(***************************************************************************)
EXTENDS Integers, Sequences, FiniteSets, TLC

(* ------------------------------ bounds -------------------------------- *)

\* workers of the executor shared by run_in_executor(None, ..) and to_thread
PoolSize == 1

\* tool invocations the agent runtime makes: one more than the pool holds
NumInv == PoolSize + 1

\* longest input string handed to calculate_sum
MaxLen == 4

Inv == 1..NumInv

\* the text arguments (city, topic, to_email) of an invocation
Args == {"a"}

\* messages an exception raised by a dependency may carry
ExcMsgs == {"m1", "m2"}

\* what os.getenv may return: None, the empty string, a value
EnvValues == {"None", "", "set"}

SumChars == {"1", "5", ".", "-", ",", " ", "a"}

Strings(chars, n) == UNION {[1..k -> chars] : k \in 0..n}

\* phone_number arguments: with a country code, the same after a blank, a
\* bare number, a bare number between blanks
Phones == {<<"+", "1">>, <<" ", "+", "1">>, <<"1">>, <<" ", "1", " ">>}

NoText == <<>>

(* --------------------------- string helpers --------------------------- *)

\* str.startswith(c) for a one-character prefix
StartsWith(s, c) == Len(s) >= 1 /\ s[1] = c

IsSpace(c) == c = " "

RECURSIVE LStrip(_)
LStrip(s) == IF s # <<>> /\ IsSpace(Head(s)) THEN LStrip(Tail(s)) ELSE s

RECURSIVE RStrip(_)
RStrip(s) ==
    IF s # <<>> /\ IsSpace(s[Len(s)]) THEN RStrip(SubSeq(s, 1, Len(s) - 1)) ELSE s

\* str.strip()
Strip(s) == RStrip(LStrip(s))

(* ------------------------------ the tools ------------------------------ *)

DirectTools == {"get_weather", "fetch_joke"}
OffloadedTools == {"read_news", "play_video", "send_whatsapp"}

VARIABLES
    tool,       \* tool[i]: the tool invocation i runs, "none" before the call
    arg,        \* arg[i]: its text argument (city, topic, to_email)
    pc,         \* pc[i]: where the coroutine stands
    dep,        \* dep[i]: what the awaited dependency produced
    hung,       \* hung[i]: the dependency will never answer
    result,     \* result[i]: the text returned to the runtime
    raised,     \* raised[i]: an exception left the tool
    loopOwner,  \* invocation running a blocking call on the loop thread, 0 if none
    queue,      \* work queue of the executor
    sender,     \* sender[i], password[i]: what os.getenv returned
    password,
    smtp,       \* smtp[i]: state of the SMTP connection of invocation i
    smtpLog,    \* smtpLog[i]: SMTP calls begun, in order
    autoplay,   \* autoplay[i]: outcome of the pywhatkit strategy
    browser,    \* browser[i]: outcome of the webbrowser strategy
    phone,      \* phone[i]: phone_number argument
    handed,     \* handed[i]: number handed to the automation
    numbers,    \* calculate_sum: the argument
    sumPc,      \* calculate_sum: "idle", "called", "done"
    sumResult   \* calculate_sum: returned text

toolVars == <<tool, arg, pc, dep, hung, result, raised, loopOwner, queue,
              sender, password, smtp, smtpLog, autoplay, browser, phone, handed>>
sumVars == <<numbers, sumPc, sumResult>>
vars == <<tool, arg, pc, dep, hung, result, raised, loopOwner, queue,
          sender, password, smtp, smtpLog, autoplay, browser, phone, handed,
          numbers, sumPc, sumResult>>


(* --------------------------- returned texts ---------------------------- *)

\* get_weather: the three return statements
WeatherText(city, d) ==
    CASE d = "200" -> <<"body">>
      [] d = "non200" -> <<"Could not retrieve weather for ", city, ".">>
      [] OTHER -> <<"An error occurred while retrieving weather for ", city, ".">>

\* fetch_joke: the three return statements
JokeText(d) ==
    CASE d = "200" -> <<"setup", " - ", "punchline">>
      [] d = "non200" -> <<"Could not retrieve a joke at this time.">>
      [] OTHER -> <<"An error occurred while fetching a joke.">>

\* read_news: the three return statements
NewsText(topic, d) ==
    CASE d = "results" -> <<"Here is the latest news on ", topic, ":", "items">>
      [] d = "empty" ->
            <<"I couldn't find any recent news stories regarding '", topic, "'.">>
      [] OTHER -> <<"I encountered an error while searching for news on ", topic, ".">>

CredentialsText == <<"Error: Gmail credentials not configured.">>
EmailSentText(to) == <<"Email sent to ", to, "!">>
EmailFailedText(m) == <<"Failed to send email: ", m>>

StartedPlayingText(topic) == <<"I've started playing ", topic, " on YouTube.">>
OpenedSearchText(topic) ==
    <<"I couldn't autoplay the specific video, but I've opened YouTube search results for ",
      topic, ".">>

WhatsappTypedText(number) ==
    <<"I have opened WhatsApp and typed the message to ">> \o number
        \o <<". Please check if it sent.">>
WhatsappFailedText ==
    <<"I tried to send the WhatsApp message, but it failed. Is WhatsApp Web logged in?">>

\* the text the except clause of a tool returns for an exception with message m
FailureText(t, a, m) ==
    CASE t = "get_weather" -> WeatherText(a, "exc")
      [] t = "fetch_joke" -> JokeText("exc")
      [] t = "read_news" -> NewsText(a, "exc")
      [] t = "send_email" -> EmailFailedText(m)
      [] t = "send_whatsapp" -> WhatsappFailedText
      [] OTHER -> NoText

(* ----------------------------- send_email ------------------------------ *)

\* truth value of what os.getenv returned: None and "" are falsy
Truthy(v) == v # "None" /\ v # ""

\* the mutation: "and" in place of "or"
CredentialsMissingBoth(s, p) == ~Truthy(s) /\ ~Truthy(p)

\* if not sender_email or not sender_password
CredentialsMissing(s, p) == ~Truthy(s) \/ ~Truthy(p)

\* the cleanup of the phone number in send_whatsapp
NormalizePhone(p) == IF ~StartsWith(p, "+") THEN <<"+", "9", "1">> \o Strip(p) ELSE p

(* ------------------------------- state --------------------------------- *)

LoopFree == loopOwner = 0

\* worker threads of the executor that are inside a call
Busy == Cardinality({j \in Inv : pc[j] = "running"})

Init ==
    /\ tool = [i \in Inv |-> "none"]
    /\ arg = [i \in Inv |-> ""]
    /\ pc = [i \in Inv |-> "idle"]
    /\ dep = [i \in Inv |-> "none"]
    /\ hung = [i \in Inv |-> FALSE]
    /\ result = [i \in Inv |-> NoText]
    /\ raised = [i \in Inv |-> FALSE]
    /\ loopOwner = 0
    /\ queue = <<>>
    /\ sender = [i \in Inv |-> "None"]
    /\ password = [i \in Inv |-> "None"]
    /\ smtp = [i \in Inv |-> "none"]
    /\ smtpLog = [i \in Inv |-> <<>>]
    /\ autoplay = [i \in Inv |-> "untried"]
    /\ browser = [i \in Inv |-> "untried"]
    /\ phone = [i \in Inv |-> <<>>]
    /\ handed = [i \in Inv |-> <<>>]
    /\ numbers = <<>>
    /\ sumPc = "idle"
    /\ sumResult = NoText

(* --------------------- get_weather and fetch_joke ---------------------- *)

\* the runtime calls a DIRECT tool: the coroutine runs up to "await session.get"
InvokeDirect(i, t, a) ==
    /\ pc[i] = "idle" /\ LoopFree
    /\ tool' = [tool EXCEPT ![i] = t]
    /\ arg' = [arg EXCEPT ![i] = a]
    /\ pc' = [pc EXCEPT ![i] = "http_wait"]
    /\ UNCHANGED <<dep, hung, result, raised, loopOwner, queue, sender,
                   password, smtp, smtpLog, autoplay, browser, phone, handed>>
    /\ UNCHANGED sumVars

\* the HTTP dependency answers: a status, and a body that reads or does not
HttpRespond(i, d) ==
    /\ pc[i] = "http_wait" /\ ~hung[i]
    /\ dep' = [dep EXCEPT ![i] = d]
    /\ pc' = [pc EXCEPT ![i] = "resumable"]
    /\ UNCHANGED <<tool, arg, hung, result, raised, loopOwner, queue, sender,
                   password, smtp, smtpLog, autoplay, browser, phone, handed>>
    /\ UNCHANGED sumVars

\* the HTTP client raises (connection refused, reset, ...); the message of
\* the exception goes to the log only
HttpRaise(i) ==
    /\ pc[i] = "http_wait" /\ ~hung[i]
    /\ dep' = [dep EXCEPT ![i] = "exc"]
    /\ pc' = [pc EXCEPT ![i] = "resumable"]
    /\ UNCHANGED <<tool, arg, hung, result, raised, loopOwner, queue, sender,
                   password, smtp, smtpLog, autoplay, browser, phone, handed>>
    /\ UNCHANGED sumVars

\* the dependency stops answering for good
DepHang(i) ==
    /\ pc[i] \in {"http_wait", "running"} /\ ~hung[i]
    /\ hung' = [hung EXCEPT ![i] = TRUE]
    /\ UNCHANGED <<tool, arg, pc, dep, result, raised, loopOwner, queue, sender,
                   password, smtp, smtpLog, autoplay, browser, phone, handed>>
    /\ UNCHANGED sumVars

\* the loop resumes the coroutine of a DIRECT tool, which returns its text
ResumeDirect(i) ==
    /\ pc[i] = "resumable" /\ tool[i] \in DirectTools /\ LoopFree
    /\ result' = [result EXCEPT ![i] =
            IF tool[i] = "get_weather" THEN WeatherText(arg[i], dep[i])
            ELSE JokeText(dep[i])]
    /\ pc' = [pc EXCEPT ![i] = "done"]
    /\ UNCHANGED <<tool, arg, dep, hung, raised, loopOwner, queue, sender,
                   password, smtp, smtpLog, autoplay, browser, phone, handed>>
    /\ UNCHANGED sumVars

(* ------------- read_news, play_video, send_whatsapp: offload ----------- *)

\* read_news: DDGS() is built inside the try, then run_in_executor(None, ..)
InvokeReadNews(i, a, built) ==
    /\ pc[i] = "idle" /\ LoopFree
    /\ tool' = [tool EXCEPT ![i] = "read_news"]
    /\ arg' = [arg EXCEPT ![i] = a]
    /\ IF built
         THEN /\ queue' = Append(queue, i)
              /\ pc' = [pc EXCEPT ![i] = "queued"]
              /\ UNCHANGED <<dep, result>>
         ELSE /\ dep' = [dep EXCEPT ![i] = "exc"]
              /\ result' = [result EXCEPT ![i] = NewsText(a, "exc")]
              /\ pc' = [pc EXCEPT ![i] = "done"]
              /\ UNCHANGED queue
    /\ UNCHANGED <<hung, raised, loopOwner, sender, password, smtp, smtpLog,
                   autoplay, browser, phone, handed>>
    /\ UNCHANGED sumVars

\* play_video: "import pywhatkit" is inside the try; when it fails the except
\* clause runs at once and calls webbrowser.open on the loop thread
InvokePlayVideo(i, a, imported) ==
    /\ pc[i] = "idle" /\ LoopFree
    /\ tool' = [tool EXCEPT ![i] = "play_video"]
    /\ arg' = [arg EXCEPT ![i] = a]
    /\ IF imported
         THEN /\ queue' = Append(queue, i)
              /\ pc' = [pc EXCEPT ![i] = "queued"]
              /\ UNCHANGED <<autoplay, loopOwner>>
         ELSE /\ autoplay' = [autoplay EXCEPT ![i] = "raised"]
              /\ pc' = [pc EXCEPT ![i] = "browser_open"]
              /\ loopOwner' = i
              /\ UNCHANGED queue
    /\ UNCHANGED <<dep, hung, result, raised, sender, password, smtp, smtpLog,
                   browser, phone, handed>>
    /\ UNCHANGED sumVars

\* send_whatsapp: "import pywhatkit" is outside the try; then the number is
\* cleaned up and handed to pywhatkit through to_thread
InvokeSendWhatsapp(i, p, imported) ==
    /\ pc[i] = "idle" /\ LoopFree
    /\ tool' = [tool EXCEPT ![i] = "send_whatsapp"]
    /\ phone' = [phone EXCEPT ![i] = p]
    /\ IF imported
         THEN /\ handed' = [handed EXCEPT ![i] = NormalizePhone(p)]
              /\ queue' = Append(queue, i)
              /\ pc' = [pc EXCEPT ![i] = "queued"]
              /\ UNCHANGED raised
         ELSE /\ raised' = [raised EXCEPT ![i] = TRUE]
              /\ pc' = [pc EXCEPT ![i] = "done"]
              /\ UNCHANGED <<handed, queue>>
    /\ UNCHANGED <<arg, dep, hung, result, loopOwner, sender, password, smtp,
                   smtpLog, autoplay, browser>>
    /\ UNCHANGED sumVars

\* a free worker thread of the executor takes the oldest queued call
WorkerStart(i) ==
    /\ queue # <<>> /\ Head(queue) = i
    /\ Busy < PoolSize
    /\ queue' = Tail(queue)
    /\ pc' = [pc EXCEPT ![i] = "running"]
    /\ UNCHANGED <<tool, arg, dep, hung, result, raised, loopOwner, sender,
                   password, smtp, smtpLog, autoplay, browser, phone, handed>>
    /\ UNCHANGED sumVars

\* what the blocking call of a tool may return
WorkerOutcomes(t) == IF t = "read_news" THEN {"results", "empty"} ELSE {"ok"}

\* the blocking call returns on its worker thread
WorkerReturn(i, d) ==
    /\ pc[i] = "running" /\ ~hung[i]
    /\ d \in WorkerOutcomes(tool[i])
    /\ dep' = [dep EXCEPT ![i] = d]
    /\ pc' = [pc EXCEPT ![i] = "resumable"]
    /\ UNCHANGED <<tool, arg, hung, result, raised, loopOwner, queue, sender,
                   password, smtp, smtpLog, autoplay, browser, phone, handed>>
    /\ UNCHANGED sumVars

\* the blocking call raises on its worker thread; the message of the
\* exception goes to the log only
WorkerRaise(i) ==
    /\ pc[i] = "running" /\ ~hung[i]
    /\ dep' = [dep EXCEPT ![i] = "exc"]
    /\ pc' = [pc EXCEPT ![i] = "resumable"]
    /\ UNCHANGED <<tool, arg, hung, result, raised, loopOwner, queue, sender,
                   password, smtp, smtpLog, autoplay, browser, phone, handed>>
    /\ UNCHANGED sumVars

\* the loop resumes read_news after the await
ResumeReadNews(i) ==
    /\ pc[i] = "resumable" /\ tool[i] = "read_news" /\ LoopFree
    /\ result' = [result EXCEPT ![i] = NewsText(arg[i], dep[i])]
    /\ pc' = [pc EXCEPT ![i] = "done"]
    /\ UNCHANGED <<tool, arg, dep, hung, raised, loopOwner, queue, sender,
                   password, smtp, smtpLog, autoplay, browser, phone, handed>>
    /\ UNCHANGED sumVars

\* the loop resumes send_whatsapp after the await
ResumeSendWhatsapp(i) ==
    /\ pc[i] = "resumable" /\ tool[i] = "send_whatsapp" /\ LoopFree
    /\ result' = [result EXCEPT ![i] =
            IF dep[i] = "ok" THEN WhatsappTypedText(handed[i]) ELSE WhatsappFailedText]
    /\ pc' = [pc EXCEPT ![i] = "done"]
    /\ UNCHANGED <<tool, arg, dep, hung, raised, loopOwner, queue, sender,
                   password, smtp, smtpLog, autoplay, browser, phone, handed>>
    /\ UNCHANGED sumVars

\* the loop resumes play_video after the await: the text of the first
\* strategy, or the except clause, which calls webbrowser.open in place
ResumePlayVideo(i) ==
    /\ pc[i] = "resumable" /\ tool[i] = "play_video" /\ LoopFree
    /\ IF dep[i] = "ok"
         THEN /\ autoplay' = [autoplay EXCEPT ![i] = "ok"]
              /\ result' = [result EXCEPT ![i] = StartedPlayingText(arg[i])]
              /\ pc' = [pc EXCEPT ![i] = "done"]
              /\ UNCHANGED loopOwner
         ELSE /\ autoplay' = [autoplay EXCEPT ![i] = "raised"]
              /\ pc' = [pc EXCEPT ![i] = "browser_open"]
              /\ loopOwner' = i
              /\ UNCHANGED result
    /\ UNCHANGED <<tool, arg, dep, hung, raised, queue, sender, password, smtp,
                   smtpLog, browser, phone, handed>>
    /\ UNCHANGED sumVars

\* webbrowser.open returns True, returns False, or raises; its value is dropped
BrowserOutcomes == {"opened", "not_opened", "raised"}

BrowserReturn(i, b) ==
    /\ pc[i] = "browser_open"
    /\ browser' = [browser EXCEPT ![i] = b]
    /\ IF b = "raised"
         THEN /\ raised' = [raised EXCEPT ![i] = TRUE]
              /\ UNCHANGED result
         ELSE /\ result' = [result EXCEPT ![i] = OpenedSearchText(arg[i])]
              /\ UNCHANGED raised
    /\ pc' = [pc EXCEPT ![i] = "done"]
    /\ loopOwner' = 0
    /\ UNCHANGED <<tool, arg, dep, hung, queue, sender, password, smtp, smtpLog,
                   autoplay, phone, handed>>
    /\ UNCHANGED sumVars

(* ------------------------------ send_email ----------------------------- *)

\* the SMTP calls of send_email, in program order
SmtpCalls == <<"connect", "starttls", "login", "sendmail", "quit">>

SmtpPcs == {"smtp_connect", "smtp_starttls", "smtp_login", "smtp_sendmail", "smtp_quit"}

\* position of the call the coroutine is inside
CallIndex(p) ==
    CASE p = "smtp_connect" -> 1
      [] p = "smtp_starttls" -> 2
      [] p = "smtp_login" -> 3
      [] p = "smtp_sendmail" -> 4
      [] p = "smtp_quit" -> 5

SmtpPcOf(k) ==
    CASE k = 1 -> "smtp_connect"
      [] k = 2 -> "smtp_starttls"
      [] k = 3 -> "smtp_login"
      [] k = 4 -> "smtp_sendmail"
      [] k = 5 -> "smtp_quit"

\* send_email up to its first blocking call: the credential check, then
\* smtplib.SMTP(..) on the loop thread
InvokeSendEmail(i, a, s, p) ==
    /\ pc[i] = "idle" /\ LoopFree
    /\ tool' = [tool EXCEPT ![i] = "send_email"]
    /\ arg' = [arg EXCEPT ![i] = a]
    /\ sender' = [sender EXCEPT ![i] = s]
    /\ password' = [password EXCEPT ![i] = p]
    /\ IF CredentialsMissing(s, p)
         THEN /\ result' = [result EXCEPT ![i] = CredentialsText]
              /\ pc' = [pc EXCEPT ![i] = "done"]
              /\ UNCHANGED <<smtpLog, loopOwner>>
         ELSE /\ smtpLog' = [smtpLog EXCEPT ![i] = <<"connect">>]
              /\ pc' = [pc EXCEPT ![i] = "smtp_connect"]
              /\ loopOwner' = i
              /\ UNCHANGED result
    /\ UNCHANGED <<dep, hung, raised, queue, smtp, autoplay, browser, phone,
                   handed>>
    /\ UNCHANGED sumVars

\* the SMTP call in progress returns normally; the next call begins, or
\* after quit the success text is returned
SmtpOk(i) ==
    /\ pc[i] \in SmtpPcs
    /\ LET k == CallIndex(pc[i]) IN
         /\ smtp' = [smtp EXCEPT ![i] = IF k = 5 THEN "closed" ELSE "open"]
         /\ IF k < 5
              THEN /\ pc' = [pc EXCEPT ![i] = SmtpPcOf(k + 1)]
                   /\ smtpLog' = [smtpLog EXCEPT ![i] = Append(@, SmtpCalls[k + 1])]
                   /\ UNCHANGED <<result, loopOwner>>
              ELSE /\ pc' = [pc EXCEPT ![i] = "done"]
                   /\ result' = [result EXCEPT ![i] = EmailSentText(arg[i])]
                   /\ loopOwner' = 0
                   /\ UNCHANGED smtpLog
    /\ UNCHANGED <<tool, arg, dep, hung, raised, queue, sender, password,
                   autoplay, browser, phone, handed>>
    /\ UNCHANGED sumVars

\* how an SMTP call may fail: the server refuses (the connection stays as it
\* was) or the connection drops (smtplib closes the socket before raising)
SmtpFailures == {"refused", "dropped"}

\* the SMTP call in progress raises: the except clause returns the text
SmtpRaise(i, f, m) ==
    /\ pc[i] \in SmtpPcs
    /\ LET k == CallIndex(pc[i]) IN
         smtp' = [smtp EXCEPT ![i] =
            IF k = 1 THEN "none"
            ELSE IF f = "dropped" \/ k = 5 THEN "closed"
            ELSE @]
    /\ dep' = [dep EXCEPT ![i] = "exc"]
    /\ result' = [result EXCEPT ![i] = FailureText("send_email", arg[i], m)]
    /\ pc' = [pc EXCEPT ![i] = "done"]
    /\ loopOwner' = 0
    /\ UNCHANGED <<tool, arg, hung, raised, queue, sender, password, smtpLog, autoplay,
                   browser, phone, handed>>
    /\ UNCHANGED sumVars

(* --------------------------- the tool system --------------------------- *)

\* steps of the agent runtime: it calls a tool
Invoke(i) ==
    \/ \E t \in DirectTools, a \in Args : InvokeDirect(i, t, a)
    \/ \E a \in Args, built \in BOOLEAN : InvokeReadNews(i, a, built)
    \/ \E a \in Args, imported \in BOOLEAN : InvokePlayVideo(i, a, imported)
    \/ \E p \in Phones, imported \in BOOLEAN : InvokeSendWhatsapp(i, p, imported)
    \/ \E a \in Args, s \in EnvValues, p \in EnvValues : InvokeSendEmail(i, a, s, p)

\* steps of the event loop: it resumes a coroutine whose await is over
Resume(i) ==
    \/ ResumeDirect(i)
    \/ ResumeReadNews(i)
    \/ ResumePlayVideo(i)
    \/ ResumeSendWhatsapp(i)

\* steps of the dependencies and of the calls made in place on the loop thread
Respond(i) ==
    \/ \E d \in {"200", "non200", "badbody"} : HttpRespond(i, d)
    \/ HttpRaise(i)
    \/ \E d \in {"results", "empty", "ok"} : WorkerReturn(i, d)
    \/ WorkerRaise(i)
    \/ SmtpOk(i)
    \/ \E f \in SmtpFailures, m \in ExcMsgs : SmtpRaise(i, f, m)
    \/ \E b \in BrowserOutcomes : BrowserReturn(i, b)

ToolNext ==
    \E i \in Inv :
        \/ Invoke(i)
        \/ Resume(i)
        \/ WorkerStart(i)
        \/ Respond(i)
        \/ DepHang(i)

Next == ToolNext

Spec == Init /\ [][Next]_vars

\* the loop and the executor are fair, and a dependency that has not hung
\* answers; nothing obliges the runtime to call or a dependency not to hang
Fairness ==
    \A i \in Inv :
        /\ WF_vars(Resume(i))
        /\ WF_vars(WorkerStart(i))
        /\ WF_vars(Respond(i))

FairSpec == Spec /\ Fairness

(* ---------------------------- calculate_sum ---------------------------- *)
(* A float is the pair of a mantissa and a count of fractional digits: its *)
(* value is mant / 10^frac.  Over SumChars and the lengths checked here    *)
(* the double-precision sum prints as this exact decimal sum.              *)

RECURSIVE Pow10(_)
Pow10(n) == IF n = 0 THEN 1 ELSE 10 * Pow10(n - 1)

Digits == <<"0", "1", "2", "3", "4", "5", "6", "7", "8", "9">>

IsDigit(c) == \E d \in 1..10 : Digits[d] = c

DigitVal(c) == (CHOOSE d \in 1..10 : Digits[d] = c) - 1

\* the mutation: str.split() without a separator drops the empty tokens
RECURSIVE SplitSkipEmptyFrom(_, _, _)
SplitSkipEmptyFrom(s, cur, acc) ==
    IF s = <<>> THEN (IF cur = <<>> THEN acc ELSE Append(acc, cur))
    ELSE IF Head(s) = ","
           THEN SplitSkipEmptyFrom(Tail(s), <<>>,
                                   IF cur = <<>> THEN acc ELSE Append(acc, cur))
           ELSE SplitSkipEmptyFrom(Tail(s), Append(cur, Head(s)), acc)

SplitSkipEmpty(s) == SplitSkipEmptyFrom(s, <<>>, <<>>)

RECURSIVE SplitFrom(_, _, _)
SplitFrom(s, cur, acc) ==
    IF s = <<>> THEN Append(acc, cur)
    ELSE IF Head(s) = ","
           THEN SplitFrom(Tail(s), <<>>, Append(acc, cur))
           ELSE SplitFrom(Tail(s), Append(cur, Head(s)), acc)

\* numbers.split(','): every comma ends a token, the empty ones included
Split(s) == SplitFrom(s, <<>>, <<>>)

NotAFloat == [ok |-> FALSE, mant |-> 0, frac |-> 0]

\* float(): an optional sign, then digits with at most one point and at least
\* one digit; st is the scanner's position in that grammar
RECURSIVE ScanFloat(_, _, _, _, _)
ScanFloat(s, st, neg, mant, frac) ==
    IF s = <<>>
      THEN IF st \in {"int", "point", "frac"}
             THEN [ok |-> TRUE, mant |-> IF neg THEN -mant ELSE mant, frac |-> frac]
             ELSE NotAFloat
      ELSE LET c == Head(s) IN
        CASE c \in {"-", "+"} /\ st = "start" ->
                ScanFloat(Tail(s), "sign", c = "-", 0, 0)
          [] IsDigit(c) /\ st \in {"start", "sign", "int"} ->
                ScanFloat(Tail(s), "int", neg, mant * 10 + DigitVal(c), 0)
          [] c = "." /\ st \in {"start", "sign"} ->
                ScanFloat(Tail(s), "lonepoint", neg, 0, 0)
          [] c = "." /\ st = "int" ->
                ScanFloat(Tail(s), "point", neg, mant, 0)
          [] IsDigit(c) /\ st \in {"lonepoint", "point", "frac"} ->
                ScanFloat(Tail(s), "frac", neg, mant * 10 + DigitVal(c), frac + 1)
          [] OTHER -> NotAFloat

\* float(x): surrounding whitespace is ignored by float itself
Float(x) == ScanFloat(Strip(x), "start", FALSE, 0, 0)

\* a + b on floats
FloatAdd(a, b) ==
    LET f == IF a.frac > b.frac THEN a.frac ELSE b.frac IN
    [ok |-> TRUE,
     mant |-> a.mant * Pow10(f - a.frac) + b.mant * Pow10(f - b.frac),
     frac |-> f]

\* sum(num_list): from 0, left to right
RECURSIVE FloatSum(_, _)
FloatSum(l, acc) == IF l = <<>> THEN acc ELSE FloatSum(Tail(l), FloatAdd(acc, Head(l)))

RECURSIVE NatDigits(_)
NatDigits(n) == IF n < 10 THEN <<Digits[n + 1]>> ELSE Append(NatDigits(n \div 10), Digits[(n % 10) + 1])

RECURSIVE PadLeft(_, _)
PadLeft(d, n) == IF Len(d) >= n THEN d ELSE PadLeft(<<"0">> \o d, n)

\* str(float): sign, integer part, point, fractional part without trailing
\* zeros, "0" when there is none
RECURSIVE FloatStr(_, _)
FloatStr(mant, frac) ==
    IF frac > 0 /\ mant % 10 = 0 THEN FloatStr(mant \div 10, frac - 1)
    ELSE LET a == IF mant < 0 THEN -mant ELSE mant
             p == Pow10(frac)
         IN (IF mant < 0 THEN <<"-">> ELSE <<>>)
              \o NatDigits(a \div p) \o <<".">>
              \o (IF frac = 0 THEN <<"0">> ELSE PadLeft(NatDigits(a % p), frac))

SumText(v) == <<"The sum is ">> \o FloatStr(v.mant, v.frac) \o <<".">>

\* the message of the ValueError of float(x), after "Error calculating sum: "
SumErrorText(x) ==
    <<"Error calculating sum: ", "could not convert string to float: ", "'">>
        \o x \o <<"'">>

\* the list comprehension: the first token that float rejects raises
RECURSIVE Convert(_, _)
Convert(toks, acc) ==
    IF toks = <<>> THEN [ok |-> TRUE, list |-> acc, bad |-> <<>>]
    ELSE LET x == Strip(Head(toks))
             f == Float(x)
         IN IF f.ok THEN Convert(Tail(toks), Append(acc, f))
            ELSE [ok |-> FALSE, list |-> acc, bad |-> x]

\* the body of calculate_sum
CalculateSum(s) ==
    LET c == Convert(Split(s), <<>>) IN
    IF c.ok THEN SumText(FloatSum(c.list, [ok |-> TRUE, mant |-> 0, frac |-> 0]))
    ELSE SumErrorText(c.bad)

\* the runtime calls calculate_sum, which returns its text
CalculateSumCall ==
    /\ sumPc = "called"
    /\ sumResult' = CalculateSum(numbers)
    /\ sumPc' = "done"
    /\ UNCHANGED numbers
    /\ UNCHANGED toolVars

SumInit ==
    /\ numbers \in Strings(SumChars, MaxLen)
    /\ sumPc = "called"
    /\ sumResult = NoText
    /\ tool = [i \in Inv |-> "none"]
    /\ arg = [i \in Inv |-> ""]
    /\ pc = [i \in Inv |-> "idle"]
    /\ dep = [i \in Inv |-> "none"]
    /\ hung = [i \in Inv |-> FALSE]
    /\ result = [i \in Inv |-> NoText]
    /\ raised = [i \in Inv |-> FALSE]
    /\ loopOwner = 0
    /\ queue = <<>>
    /\ sender = [i \in Inv |-> "None"]
    /\ password = [i \in Inv |-> "None"]
    /\ smtp = [i \in Inv |-> "none"]
    /\ smtpLog = [i \in Inv |-> <<>>]
    /\ autoplay = [i \in Inv |-> "untried"]
    /\ browser = [i \in Inv |-> "untried"]
    /\ phone = [i \in Inv |-> <<>>]
    /\ handed = [i \in Inv |-> <<>>]

SumNext == CalculateSumCall

SumSpec == SumInit /\ [][SumNext]_vars

(* ------------------------------ the claims ----------------------------- *)

Done(i) == pc[i] = "done"

\* C1: every invocation of a tool ends by returning a text; no exception
\* leaves the tool, whatever its dependency does (an import that fails and a
\* fallback that fails included).
C1_NoExceptionEscapes == \A i \in Inv : Done(i) => ~raised[i]

\* C2: send_email called while GMAIL_SENDER or GMAIL_APP_PASSWORD is absent
\* or empty returns the credentials text and makes no SMTP call at all.
C2_MissingCredentialsNoSmtp ==
    \A i \in Inv :
        (tool[i] = "send_email"
            /\ (sender[i] \in {"None", ""} \/ password[i] \in {"None", ""}))
        => /\ Done(i)
           /\ result[i] = CredentialsText
           /\ smtpLog[i] = <<>>
           /\ smtp[i] = "none"
           /\ loopOwner # i

C2_Witness ==
    \E i \in Inv :
        /\ tool[i] = "send_email" /\ sender[i] = "set" /\ password[i] = ""
        /\ Done(i) /\ result[i] = CredentialsText

\* positions inside a blocking library call
BlockingPcs == SmtpPcs \cup {"running", "browser_open"}

\* C3: a tool that is inside a blocking library call (the executor's call, an
\* SMTP call, webbrowser.open) is never on the event-loop thread.
C3_NoBlockingCallOnLoop == \A i \in Inv : pc[i] \in BlockingPcs => loopOwner # i

C5_FailureTextIndependent ==
    \A i \in Inv :
        (Done(i) /\ dep[i] = "exc" /\ tool[i] # "play_video")
        => \A m \in ExcMsgs : result[i] = FailureText(tool[i], arg[i], m)

\* the tokens of s: the stretches <<a, b>> of s between two commas or an end.
Fields(s) ==
    {f \in (1..(Len(s) + 1)) \X (0..Len(s)) :
        /\ f[2] >= f[1] - 1
        /\ (f[1] = 1 \/ s[f[1] - 1] = ",")
        /\ (f[2] = Len(s) \/ s[f[2] + 1] = ",")
        /\ \A k \in f[1]..f[2] : s[k] # ","}

Min(S) == CHOOSE x \in S : \A y \in S : x <= y
Max(S) == CHOOSE x \in S : \A y \in S : x >= y

\* positions of the token s[a..b] that are not blanks
Inked(s, a, b) == {k \in a..b : s[k] # " "}

\* first position of the digits-and-point part of the token, after a sign
BodyStart(s, a, b) ==
    LET lo == Min(Inked(s, a, b)) IN IF s[lo] \in {"-", "+"} THEN lo + 1 ELSE lo

\* the token s[a..b] is a decimal numeral
IsNumeral(s, a, b) ==
    /\ Inked(s, a, b) # {}
    /\ LET hi == Max(Inked(s, a, b))
           body == BodyStart(s, a, b)..hi
       IN /\ \A k \in body : IsDigit(s[k]) \/ s[k] = "."
          /\ Cardinality({k \in body : s[k] = "."}) <= 1
          /\ \E k \in body : IsDigit(s[k])

RECURSIVE SetSum(_, _)
SetSum(S, w) ==
    IF S = {} THEN 0 ELSE LET x == CHOOSE y \in S : TRUE IN w[x] + SetSum(S \ {x}, w)

\* position of the point of the numeral s[a..b], just past its end when it
\* has none
PointOf(s, a, b) ==
    LET hi == Max(Inked(s, a, b))
        points == {k \in BodyStart(s, a, b)..hi : s[k] = "."}
    IN IF points = {} THEN hi + 1 ELSE Min(points)

\* number of fractional digits of the numeral s[a..b]
FracLen(s, a, b) ==
    LET hi == Max(Inked(s, a, b))
        point == PointOf(s, a, b)
    IN IF point > hi THEN 0 ELSE hi - point

\* the value of the numeral s[a..b], in units of 10^(-scale)
NumeralValue(s, a, b, scale) ==
    LET hi == Max(Inked(s, a, b))
        body == BodyStart(s, a, b)..hi
        point == PointOf(s, a, b)
        weight == [k \in body |->
            IF ~IsDigit(s[k]) THEN 0
            ELSE IF k < point THEN DigitVal(s[k]) * Pow10(scale + point - 1 - k)
            ELSE DigitVal(s[k]) * Pow10(scale - (k - point))]
        magnitude == SetSum(body, weight)
    IN IF s[Min(Inked(s, a, b))] = "-" THEN -magnitude ELSE magnitude

\* the most fractional digits of a token of s
SumScale(s) == Max({0} \cup {FracLen(s, f[1], f[2]) : f \in Fields(s)})

\* the sum of the tokens of s, in units of 10^(-SumScale(s))
TokenSum(s) ==
    SetSum(Fields(s), [f \in Fields(s) |-> NumeralValue(s, f[1], f[2], SumScale(s))])

\* C6: calculate_sum returns "The sum is S." with S the sum of the tokens when
\* every comma-separated token, blanks around it ignored, is a number, and a
\* text beginning "Error calculating sum:" when some token is not (an empty
\* token and the empty input included).
C6_CalculateSum ==
    sumPc = "done" =>
        IF \A f \in Fields(numbers) : IsNumeral(numbers, f[1], f[2])
        THEN sumResult = <<"The sum is ">>
                            \o FloatStr(TokenSum(numbers), SumScale(numbers)) \o <<".">>
        ELSE /\ sumResult # NoText
             /\ sumResult[1] = "Error calculating sum: "

C6_Witness ==
    /\ sumPc = "done"
    /\ numbers = <<"1", ",", ".", "5">>
    /\ sumResult = <<"The sum is ", "1", ".", "5", ".">>

\* C7: every OFFLOADED invocation handed to the executor, queued or running,
\* eventually completes.
C7_OffloadedComplete == \A i \in Inv : (pc[i] \in {"queued", "running"}) ~> Done(i)

\* C8: play_video tries the browser exactly when autoplay raised, and a text
\* names a strategy only when that strategy succeeded.
C8_PlayVideoStrategies ==
    \A i \in Inv :
        (tool[i] = "play_video" /\ Done(i))
        => /\ (browser[i] # "untried") <=> (autoplay[i] = "raised")
           /\ result[i] = StartedPlayingText(arg[i]) => autoplay[i] = "ok"
           /\ result[i] = OpenedSearchText(arg[i]) => browser[i] = "opened"

\* the argument, blanks around it ignored, carries a country code
HasCountryCode(p) == StartsWith(Strip(p), "+")

\* C9: the number handed to the automation is the argument itself when the
\* argument, blanks around it ignored, begins with "+", and "+91" followed by
\* the trimmed argument otherwise; it begins with exactly one "+", and
\* cleaning it up again changes nothing.

C9_CountryCode ==
    \A i \in Inv :
        (tool[i] = "send_whatsapp" /\ handed[i] # <<>>)
        => /\ handed[i] = IF HasCountryCode(phone[i]) THEN phone[i]
                          ELSE <<"+", "9", "1">> \o Strip(phone[i])
           /\ StartsWith(handed[i], "+") /\ ~StartsWith(Tail(handed[i]), "+")
           /\ NormalizePhone(handed[i]) = handed[i]

\* C10: send_email never returns while its SMTP connection is open.
C10_SmtpClosedOnReturn == \A i \in Inv : Done(i) => smtp[i] # "open"

(* --------------------------- supporting facts -------------------------- *)

\* Under FairSpec an awaited HTTP call ends unless its dependency hangs, and
\* a call handed to the executor ends unless some dependency hangs: nothing
\* but a dependency that never answers keeps an invocation pending.
DirectTerminatesUnlessHung ==
    \A i \in Inv : (pc[i] = "http_wait") ~> (Done(i) \/ hung[i])

OffloadedCompleteUnlessHung ==
    \A i \in Inv :
        (pc[i] \in {"queued", "running"}) ~> (Done(i) \/ \E j \in Inv : hung[j])

\* a call handed to the executor is queued or taken by a worker, never
\* rejected, and at most PoolSize calls run at a time
ExecutorQueues ==
    /\ Busy <= PoolSize
    /\ \A i \in Inv :
          (tool[i] \in OffloadedTools /\ ~Done(i) /\ pc[i] \notin {"resumable", "browser_open"})
          => \/ pc[i] = "running"
             \/ pc[i] = "queued" /\ \E k \in 1..Len(queue) : queue[k] = i

====
